---------------------------- MODULE Spec2Model ----------------------------
(***************************************************************************)
(* A model of the grouping-and-aggregation engine of powerplantmatching    *)
(* (src/powerplantmatching/cleaning.py): cliques(), clean_powerplantname() *)
(* and aggregate_units() with its aggregation-group cache file, followed   *)
(* by gather_set_info() and by collect() of collection.py.                 *)
(*                                                                         *)
(* Conventions                                                             *)
(*  - a table index is a set of integer labels; a table is a sequence of   *)
(*    rows, each row carrying its index label in the field idx;            *)
(*  - dataduplicates is modelled as the set of ordered pairs (one, two) it *)
(*    holds: networkx builds the graph from that set, the order and the    *)
(*    multiplicity of the rows only influence the enumeration order of     *)
(*    find_cliques, which is a free choice (order) here;                   *)
(*  - np.nan in the column "grouped" is the value NaN;                     *)
(*  - real numbers are exact rationals [n, d]; d = 0 is the result of a    *)
(*    division by zero (0/0 is nan, x/0 is inf).                           *)
(***************************************************************************)
EXTENDS Integers, Sequences, FiniteSets, TLC

VARIABLES cq, run, cache, fn

vars == <<cq, run, cache, fn>>

-----------------------------------------------------------------------------
(* Bounds of the model.                                                    *)

MaxRows == 3

MaxSignals == 4

-----------------------------------------------------------------------------
(* Generic helpers.                                                        *)

RECURSIVE SubsetsUpTo(_, _)
SubsetsUpTo(S, k) ==
    IF k = 0 THEN {{}}
    ELSE LET prev == SubsetsUpTo(S, k - 1)
         IN  prev \cup {p \cup {x} : p \in prev, x \in S}

SetMax(S) == CHOOSE x \in S : \A y \in S : y <= x

SetMin(S) == CHOOSE x \in S : \A y \in S : x <= y

-----------------------------------------------------------------------------
(* cliques(df, dataduplicates)                                             *)

NaN == -1

\* G = nx.DiGraph(); G.add_nodes_from(df.index); G.add_edges_from(...):
\* add_edges_from also adds every endpoint as a node.
GraphNodes(index, dup) ==
    index \cup {p[1] : p \in dup} \cup {p[2] : p \in dup}

\* H = G.to_undirected(reciprocal=True): u -- v iff both u->v and v->u.
ToUndirectedAny(dup, u, v) == <<u, v>> \in dup \/ <<v, u>> \in dup

ToUndirected(dup, u, v) == <<u, v>> \in dup /\ <<v, u>> \in dup

\* find_cliques ignores self loops.
IsClique(dup, S) ==
    \A u \in S : \A v \in S : u # v => ToUndirected(dup, u, v)

MaximalCliquesNoSingletons(index, dup) ==
    LET N == GraphNodes(index, dup)
    IN  {S \in SUBSET N :
            /\ Cardinality(S) >= 2
            /\ IsClique(dup, S)
            /\ \A v \in N \ S : ~IsClique(dup, S \cup {v})}

\* nx.algorithms.clique.find_cliques(H): every maximal clique, once.
MaximalCliques(index, dup) ==
    LET N == GraphNodes(index, dup)
    IN  {S \in SUBSET N :
            /\ S # {}
            /\ IsClique(dup, S)
            /\ \A v \in N \ S : ~IsClique(dup, S \cup {v})}

\* The orders in which find_cliques may yield the maximal cliques.
CliqueOrders(index, dup) ==
    LET M == MaximalCliques(index, dup)
        k == Cardinality(M)
    IN  {o \in [1..k -> M] : \A i \in 1..k : \A j \in 1..k : o[i] = o[j] => i = j}

\* for i, inds in enumerate(find_cliques(H)): grouped.loc[inds] = i
\* (position p of the sequence is enumeration index p - 1).
RECURSIVE AssignLoopFirstWins(_, _, _)
AssignLoopFirstWins(grouped, order, p) ==
    IF p > Len(order) THEN grouped
    ELSE AssignLoopFirstWins(
             [n \in DOMAIN grouped |->
                 IF n \in order[p] /\ grouped[n] = NaN THEN p - 1 ELSE grouped[n]],
             order, p + 1)

RECURSIVE AssignLoop(_, _, _)
AssignLoop(grouped, order, p) ==
    IF p > Len(order) THEN grouped
    ELSE AssignLoop(
             [n \in DOMAIN grouped |-> IF n \in order[p] THEN p - 1 ELSE grouped[n]],
             order, p + 1)

\* grouped.loc[inds] = i raises KeyError when inds holds a label that is not
\* in df.index.
CliquesRaises(index, order) ==
    \E p \in 1..Len(order) : ~(order[p] \subseteq index)

CliquesFirstWins(index, order) ==
    AssignLoopFirstWins([n \in index |-> NaN], order, 1)

\* grouped = pd.Series(np.nan, index=df.index), then the loop: the column
\* "grouped" that cliques() returns (when it does not raise).
Cliques(index, order) ==
    AssignLoop([n \in index |-> NaN], order, 1)

-----------------------------------------------------------------------------
(* clean_powerplantname(df)                                                *)
(* A Name is the sequence of its whitespace-separated tokens; the empty    *)
(* sequence is the empty string.                                           *)

FreqThreshold == 20

\* A missing text cell (NaN, None); a text is a sequence of non-empty tokens.
NullText == <<"">>

Lower(t) ==
    CASE t = "Alpha" -> "alpha"
      [] t = "Beta"  -> "beta"
      [] t = "Power" -> "power"
      [] t = "Plant" -> "plant"
      [] t = "Unit"  -> "unit"
      [] t = "Station" -> "station"
      [] t = "I"       -> "i"
      [] t = "CHP"     -> "chp"
      [] t = "Heat"    -> "heat"
      [] t = "Storage" -> "storage"
      [] t = "Battery" -> "battery"
      [] t = "Pumped"  -> "pumped"
      [] OTHER       -> t

Title(t) ==
    CASE t = "alpha" -> "Alpha"
      [] t = "beta"  -> "Beta"
      [] t = "power" -> "Power"
      [] t = "plant" -> "Plant"
      [] t = "unit"  -> "Unit"
      [] OTHER       -> t

\* The order of str comparison on the tokens of the model ("2" < "A" < "a").
TokenRank(t) ==
    CASE t = "2"     -> 0
      [] t = "Alpha" -> 1
      [] t = "Beta"  -> 2
      [] t = "Plant" -> 3
      [] t = "Power" -> 4
      [] t = "Unit"  -> 5
      [] t = "alpha" -> 6
      [] t = "beta"  -> 7
      [] t = "plant" -> 8
      [] t = "power" -> 9
      [] t = "unit"  -> 10
      [] OTHER       -> 11

\* Tokens made of the characters that the first replace() turns into spaces.
IsPunct(t) == t \in {"2", "-", "/"}

\* The hand-written entries of the pattern list, lower-cased ((?i) makes the
\* match case-insensitive); "[a-z]" is SingleLetter.
FixedNoise ==
    {"i", "ii", "iii", "iv", "v", "vi", "vii", "viii", "ix", "x", "xi",
     "grupo", "parque", "eolico", "gas", "biomasa", "cogeneracion", "gt",
     "unnamed", "planta", "de", "la", "station", "power", "storage", "plant",
     "stage", "pumped", "project", "dt", "gud", "hkw", "kbr", "kernkraft",
     "kernkraftwerk", "kwg", "krb", "ohu", "gkn",
     "gemeinschaftskernkraftwerk", "kki", "kkp", "kle", "wkw", "rwe", "bis",
     "nordsee", "ostsee", "dampfturbinenanlage", "ikw", "kw",
     "kohlekraftwerk", "raffineriekraftwerk", "kraftwerke"}

SingleLetter(t) == t \in {"a", "b", "i", "A", "B", "I"}

StripPunct(name) == LET Keep(t) == ~IsPunct(t) IN SelectSeq(name, Keep)

RECURSIVE SeqSum(_)
SeqSum(s) == IF s = <<>> THEN 0 ELSE Head(s) + SeqSum(Tail(s))

Occurrences(t, name) == Cardinality({i \in 1..Len(name) : name[i] = t})

\* common_words = pd.Series(sum(name.str.split(), [])).value_counts();
\* cw = list(common_words[common_words >= 20].index)
CommonWords(names) ==
    LET toks == UNION {{names[i][j] : j \in 1..Len(names[i])} : i \in 1..Len(names)}
    IN  {t \in toks :
            SeqSum([i \in 1..Len(names) |-> Occurrences(t, names[i])])
                >= FreqThreshold}

RemoveNoise(name, cw) ==
    LET low == {Lower(t) : t \in cw} \cup FixedNoise
        Keep(t) == Lower(t) \notin low /\ ~SingleLetter(t)
    IN  SelectSeq(name, Keep)

\* str.capitalize(): first character upper case, the rest lower case.
Capitalize(name) ==
    [i \in 1..Len(name) |-> IF i = 1 THEN Title(Lower(name[i])) ELSE Lower(name[i])]

CleanName(name, cw) == Capitalize(RemoveNoise(StripPunct(name), cw))

\* str comparison of two cleaned names: token by token, a proper prefix first.
RECURSIVE NameLess(_, _)
NameLess(a, b) ==
    IF b = <<>> THEN FALSE
    ELSE IF a = <<>> THEN TRUE
    ELSE IF TokenRank(Head(a)) # TokenRank(Head(b))
         THEN TokenRank(Head(a)) < TokenRank(Head(b))
         ELSE NameLess(Tail(a), Tail(b))

\* sort_values('Name') (stable on the short tables of the model).
RECURSIVE InsertByName(_, _)
InsertByName(row, sorted) ==
    IF sorted = <<>> THEN <<row>>
    ELSE IF NameLess(row.Name, Head(sorted).Name)
         THEN <<row>> \o sorted
         ELSE <<Head(sorted)>> \o InsertByName(row, Tail(sorted))

RECURSIVE SortByName(_)
SortByName(rows) ==
    IF rows = <<>> THEN <<>>
    ELSE InsertByName(rows[Len(rows)], SortByName(SubSeq(rows, 1, Len(rows) - 1)))

\* reset_index(drop=True)
ResetIndex(rows) == [i \in 1..Len(rows) |-> [rows[i] EXCEPT !.idx = i - 1]]

CleanKeepsEverything(df) ==
    LET cw == CommonWords([i \in 1..Len(df) |-> StripPunct(df[i].Name)])
        named == [i \in 1..Len(df) |-> [df[i] EXCEPT !.Name = CleanName(@, cw)]]
    IN  ResetIndex(SortByName(named))

clean_powerplantname(df) ==
    LET NotNull(r) == r.Name # NullText
        dfn == SelectSeq(df, NotNull)
        cw == CommonWords([i \in 1..Len(dfn) |-> StripPunct(dfn[i].Name)])
        named == [i \in 1..Len(dfn) |-> [dfn[i] EXCEPT !.Name = CleanName(@, cw)]]
        NonEmpty(r) == r.Name # <<>>
    IN  ResetIndex(SortByName(SelectSeq(named, NonEmpty)))

-----------------------------------------------------------------------------
(* aggregate_units(df, dataset_name, pre_clean_name, save_aggregation,     *)
(*                 use_saved_aggregation)                                  *)
(* Efficiency and Duration are target columns; a row is                    *)
(* [idx, Name, Capacity, Efficiency, Duration, projectID].                 *)

\* df.assign(**{col: df[col] * df.Capacity for col in weighted_cols})
Weighted(df) ==
    [i \in 1..Len(df) |->
        [df[i] EXCEPT !.Efficiency = @ * df[i].Capacity,
                      !.Duration = @ * df[i].Capacity]]

IndexOf(table) == {table[i].idx : i \in 1..Len(table)}

\* The table that reaches the grouping step.
WorkingTable(df, pre_clean_name) ==
    IF pre_clean_name THEN clean_powerplantname(Weighted(df)) ELSE Weighted(df)

\* pd.read_csv(path_name, header=None, index_col=0) raises IOError when the
\* file is missing and ValueError when it cannot be parsed or is empty.
ReadFails(file) == file.kind # "file" \/ DOMAIN file.map = {}

\* .reindex(index=df.index): the saved group id of every label of the current
\* index, nan for a label the file does not hold; other labels are left out.
Reindex(map, index) ==
    [n \in index |-> IF n \in DOMAIN map THEN map[n] ELSE NaN]

\* ds.value_counts(dropna=False).index[0]: the most frequent value, the first
\* met among equally frequent ones.
MostFrequent(vals) ==
    LET Count(v) == Cardinality({i \in 1..Len(vals) : vals[i] = v})
    IN  vals[CHOOSE i \in 1..Len(vals) :
                /\ \A j \in 1..Len(vals) : Count(vals[j]) <= Count(vals[i])
                /\ \A j \in 1..(i - 1) : Count(vals[j]) < Count(vals[i])]

\* Exact reals: n / d.
RSum(vals) == [n |-> SeqSum(vals), d |-> 1]

RMean(vals) == [n |-> SeqSum(vals), d |-> Len(vals)]

RDiv(r, c) == [n |-> r.n, d |-> r.d * c]

RatEq(r, v) == r.d # 0 /\ r.n = v * r.d

Column(rows, col) == [i \in 1..Len(rows) |-> rows[i][col]]

SeqMax(vals) == SetMax({vals[i] : i \in 1..Len(vals)})

CapacityMax(rows) == SeqMax(Column(rows, "Capacity"))

\* 'Capacity': pd.Series.sum
CapacitySum(rows) == SeqSum(Column(rows, "Capacity"))

\* 'Efficiency': pd.Series.mean, 'Duration': pd.Series.sum, each applied to
\* the column already multiplied by Capacity.
EfficiencyReducer(rows) == RMean(Column(rows, "Efficiency"))

DurationReducer(rows) == RSum(Column(rows, "Duration"))

\* One row of df.groupby('grouped').agg(props_for_groups).
AggRow(rows) ==
    [idx        |-> 0,
     Name       |-> MostFrequent(Column(rows, "Name")),
     Capacity   |-> CapacitySum(rows),
     Efficiency |-> EfficiencyReducer(rows),
     Duration   |-> DurationReducer(rows),
     projectID  |-> Column(rows, "projectID")]

RECURSIVE SortedSeq(_)
SortedSeq(S) ==
    IF S = {} THEN <<>> ELSE <<SetMin(S)>> \o SortedSeq(S \ {SetMin(S)})

\* groupby('grouped'): one group per group id, in increasing order of the id;
\* the rows whose "grouped" is nan belong to no group.
GroupBy(table, grouped) ==
    LET ids == {grouped[n] : n \in DOMAIN grouped} \ {NaN}
        key == SortedSeq(ids)
        Members(g) == LET In(r) == grouped[r.idx] = g IN SelectSeq(table, In)
    IN  [k \in 1..Len(key) |-> AggRow(Members(key[k]))]

\* df.assign(**{col: df[col].div(df['Capacity']) for col in weighted_cols})
Unweighted(rows) ==
    [i \in 1..Len(rows) |->
        [rows[i] EXCEPT !.Efficiency = RDiv(@, rows[i].Capacity),
                        !.Duration = RDiv(@, rows[i].Capacity)]]

PostCleanKeepsEverything(rows) == CleanKeepsEverything(rows)

\* .reset_index(drop=True).pipe(clean_powerplantname)
PostClean(rows) == clean_powerplantname(rows)

\* The table aggregate_units returns for a grouped working table.
Aggregated(table, grouped) == PostClean(Unweighted(GroupBy(table, grouped)))

\* What duke(df) may return: pairs of distinct labels of df.index.
DukeOutputs(index) ==
    SubsetsUpTo({p \in index \X index : p[1] # p[2]}, MaxSignals)

SavedFile(grouped) == [kind |-> "file", map |-> grouped]

\* if use_saved_aggregation & save_aggregation:
TriesCache(save_aggregation, use_saved_aggregation) ==
    use_saved_aggregation /\ save_aggregation

\* if save_aggregation: df.grouped.to_csv(path_name)
SavesNever(save_aggregation) == FALSE

Saves(save_aggregation) == save_aggregation

AggregateUnits(df, pre_clean_name, save_aggregation, use_saved_aggregation) ==
    LET table == WorkingTable(df, pre_clean_name)
        index == IndexOf(table)
        tries == TriesCache(save_aggregation, use_saved_aggregation)
        hit   == tries /\ ~ReadFails(cache)
    IN  \E dup \in DukeOutputs(index) :
        \E o \in (IF hit THEN {<<>>} ELSE CliqueOrders(index, dup)) :
            LET grouped == IF hit THEN Reindex(cache.map, index)
                           ELSE Cliques(index, o)
            IN  /\ run' = [pc |-> "returned",
                           df |-> df,
                           pre_clean_name |-> pre_clean_name,
                           save_aggregation |-> save_aggregation,
                           use_saved_aggregation |-> use_saved_aggregation,
                           table |-> table,
                           dup |-> dup,
                           order |-> o,
                           warned |-> tries /\ ~hit,
                           hit |-> hit,
                           cache_before |-> cache,
                           grouped |-> grouped,
                           out |-> Aggregated(table, grouped)]
                /\ cache' = IF ~hit /\ Saves(save_aggregation)
                            THEN SavedFile(grouped)
                            ELSE cache
                /\ UNCHANGED <<cq, fn>>

-----------------------------------------------------------------------------
(* Specification of cliques() as a function of its inputs.                 *)

\* The signal lists for the index 0..n-1: their endpoints are labels of the
\* index or the one label n that is not in it.
SignalLists(index) ==
    LET labels == index \cup {Cardinality(index)}
    IN  SubsetsUpTo({p \in labels \X labels : p[1] # p[2]}, MaxSignals)

Indexes == {0..(n - 1) : n \in 1..MaxRows}

IdleRun == [pc |-> "idle"]

NoCache == [kind |-> "missing"]

\* No call of gather_set_info, clean_powerplantname or collect is under way.
IdleFn == [pc |-> "idle"]

InitCliques ==
    /\ \E index \in Indexes : \E dup \in SignalLists(index) :
          cq = [pc |-> "start", index |-> index, dup |-> dup,
                order |-> <<>>, grouped |-> <<>>]
    /\ run = IdleRun
    /\ cache = NoCache
    /\ fn = IdleFn

CliquesCall ==
    /\ cq.pc = "start"
    /\ \E o \in CliqueOrders(cq.index, cq.dup) :
          cq' = IF CliquesRaises(cq.index, o)
                THEN [cq EXCEPT !.pc = "raised", !.order = o]
                ELSE [cq EXCEPT !.pc = "done", !.order = o,
                                !.grouped = Cliques(cq.index, o)]
    /\ UNCHANGED <<run, cache, fn>>

NextCliques == CliquesCall

SpecCliques == InitCliques /\ [][NextCliques]_vars

-----------------------------------------------------------------------------
(* Specification of one aggregate_units() call on a table of records with  *)
(* varied names, capacities, efficiencies and durations.                   *)

MaxAggRows == 2

AggNames == {<<"Alpha", "Power">>, <<"Power", "Plant">>}

AggCapacities == {0, 50, 100}

\* Efficiency in percent, Duration in hours.
AggRatings == {[Efficiency |-> 40, Duration |-> 2],
               [Efficiency |-> 30, Duration |-> 4]}

\* The tables of n rows with the dense index 0..n-1.
AggTablesOf(n) ==
    {[i \in 1..n |->
        [idx |-> i - 1, Name |-> nm[i], Capacity |-> cp[i],
         Efficiency |-> rt[i].Efficiency, Duration |-> rt[i].Duration,
         projectID |-> i]] :
     nm \in [1..n -> AggNames], cp \in [1..n -> AggCapacities],
     rt \in [1..n -> AggRatings]}

AggTables == UNION {AggTablesOf(n) : n \in 1..MaxAggRows}

InitAgg ==
    /\ cq = [pc |-> "idle"]
    /\ run = IdleRun
    /\ cache = NoCache
    /\ fn = IdleFn

AggregateOnce ==
    /\ run.pc = "idle"
    /\ \E df \in AggTables : \E pre \in BOOLEAN :
          AggregateUnits(df, pre, TRUE, FALSE)

NextAgg == AggregateOnce

SpecAgg == InitAgg /\ [][NextAgg]_vars

-----------------------------------------------------------------------------
(* Specification of successive aggregate_units() calls under one dataset   *)
(* name, with the cache file of that name between them.                    *)

MaxCacheRows == 2

MaxLabel == 2

CacheNames == {<<"Alpha">>}

\* Tables whose index is any set of labels, in increasing order.
CacheTablesOn(index) ==
    LET key == SortedSeq(index)
    IN  {[i \in 1..Len(key) |->
            [idx |-> key[i], Name |-> nm[i], Capacity |-> 100,
             Efficiency |-> 40, Duration |-> 2, projectID |-> key[i]]] :
         nm \in [1..Len(key) -> CacheNames]}

CacheTables ==
    UNION {CacheTablesOn(index) :
           index \in {S \in SUBSET (0..MaxLabel) :
                         S # {} /\ Cardinality(S) <= MaxCacheRows}}

Init ==
    /\ cq = [pc |-> "idle"]
    /\ run = IdleRun
    /\ cache = NoCache
    /\ fn = IdleFn

\* A call starts when the result of the previous one has been taken: the
\* engine is synchronous and single-threaded.
Aggregate ==
    /\ run.pc = "idle"
    /\ \E df \in CacheTables : \E pre \in BOOLEAN :
       \E save \in BOOLEAN : \E use \in BOOLEAN :
          AggregateUnits(df, pre, save, use)

\* The caller takes the returned table.
Return ==
    /\ run.pc = "returned"
    /\ run' = IdleRun
    /\ UNCHANGED <<cq, cache, fn>>

\* Between two calls the file of the dataset name is deleted, or overwritten
\* with content that read_csv cannot parse.
RemoveCache ==
    /\ run.pc = "idle"
    /\ cache.kind # "missing"
    /\ cache' = NoCache
    /\ UNCHANGED <<cq, run, fn>>

CorruptCache ==
    /\ run.pc = "idle"
    /\ cache.kind # "unreadable"
    /\ cache' = [kind |-> "unreadable"]
    /\ UNCHANGED <<cq, run, fn>>

Next == Aggregate \/ Return \/ RemoveCache \/ CorruptCache

Spec == Init /\ [][Next]_vars

-----------------------------------------------------------------------------
(* Properties of cliques().                                                *)

ValidSignals == \A p \in cq.dup : p[1] \in cq.index /\ p[2] \in cq.index

\* The enumeration indices (0-based) of the cliques that contain record n.
CliqueIdsOf(n) == {p - 1 : p \in {q \in 1..Len(cq.order) : n \in cq.order[q]}}

GroupOf(g) == {n \in cq.index : cq.grouped[n] = g}

\* C1: when every endpoint of every signal is an index of the table,
\* cliques() returns, and every record index carries exactly one group id
\* (none is left NaN); the groups are non-empty, pairwise disjoint sets of
\* record indices whose union is the full index set.
C1_Partition ==
    (cq.pc # "start" /\ ValidSignals) =>
        /\ cq.pc = "done"
        /\ DOMAIN cq.grouped = cq.index
        /\ \A n \in cq.index : cq.grouped[n] \in 0..(Len(cq.order) - 1)
        /\ LET ids == {cq.grouped[n] : n \in cq.index}
           IN  /\ UNION {GroupOf(g) : g \in ids} = cq.index
               /\ \A g \in ids : \A h \in ids :
                     g # h => GroupOf(g) \cap GroupOf(h) = {}

\* A record without any reciprocal edge (and a table with another record)
\* has been given a group of its own.
C1_Witness ==
    /\ cq.pc = "done"
    /\ ValidSignals
    /\ Cardinality(cq.index) >= 2
    /\ \E n \in cq.index :
          /\ \A m \in cq.index \ {n} : ~ToUndirected(cq.dup, n, m)
          /\ GroupOf(cq.grouped[n]) = {n}

\* C2: two distinct records receive the same group id only if the signal
\* list holds both (a, b) and (b, a).
C2_Reciprocity ==
    cq.pc = "done" =>
        \A a \in cq.index : \A b \in cq.index :
            (a # b /\ cq.grouped[a] # NaN /\ cq.grouped[a] = cq.grouped[b])
                => (<<a, b>> \in cq.dup /\ <<b, a>> \in cq.dup)

\* A signal present in one direction only, whose records end in different
\* groups.
C2_Witness ==
    /\ cq.pc = "done"
    /\ \E a \in cq.index : \E b \in cq.index :
          /\ a # b
          /\ <<a, b>> \in cq.dup
          /\ <<b, a>> \notin cq.dup
          /\ cq.grouped[a] # cq.grouped[b]

\* C10 as stated: every record carries the index of the FIRST maximal clique,
\* in discovery order, that contains it.
C10_FirstClique ==
    cq.pc = "done" =>
        \A n \in cq.index : cq.grouped[n] = SetMin(CliqueIdsOf(n))

\* C10 (amended): every record carries the index of the LAST maximal clique,
\* in discovery order, that contains it: the largest enumeration index among
\* the cliques it belongs to.
C10_LastClique ==
    cq.pc = "done" =>
        \A n \in cq.index :
            /\ CliqueIdsOf(n) # {}
            /\ cq.grouped[n] = SetMax(CliqueIdsOf(n))

\* A record that belongs to two maximal cliques.
C10_Witness ==
    /\ cq.pc = "done"
    /\ \E n \in cq.index : Cardinality(CliqueIdsOf(n)) >= 2

-----------------------------------------------------------------------------
(* Properties of aggregate_units().                                        *)

Returned == run.pc = "returned"

RunIndex == IndexOf(run.table)

RunGroupIds == {run.grouped[n] : n \in RunIndex} \ {NaN}

\* The projectIDs of the records of the working table assigned to group g.
MembersOf(g) ==
    {run.table[i].projectID :
        i \in {j \in 1..Len(run.table) : run.grouped[run.table[j].idx] = g}}

\* The record of the input table with projectID pid, as it was passed in.
InputRow(pid) == run.df[CHOOSE i \in 1..Len(run.df) : run.df[i].projectID = pid]

OutMembers(i) == {run.out[i].projectID[k] : k \in 1..Len(run.out[i].projectID)}

CapacityOf(pid) == InputRow(pid).Capacity

WeightedEfficiencyOf(pid) == InputRow(pid).Efficiency * InputRow(pid).Capacity

RECURSIVE CapacityOfAll(_)
CapacityOfAll(S) ==
    IF S = {} THEN 0
    ELSE LET x == CHOOSE y \in S : TRUE
         IN  CapacityOf(x) + CapacityOfAll(S \ {x})

RECURSIVE WeightedEfficiencyOfAll(_)
WeightedEfficiencyOfAll(S) ==
    IF S = {} THEN 0
    ELSE LET x == CHOOSE y \in S : TRUE
         IN  WeightedEfficiencyOf(x) + WeightedEfficiencyOfAll(S \ {x})

EnteredPids == {run.table[i].projectID : i \in 1..Len(run.table)}

OutPids == UNION {OutMembers(i) : i \in 1..Len(run.out)}

OutCapacityTotal == SeqSum(Column(run.out, "Capacity"))

\* The groups whose most frequent Name is not emptied by the cleaning pass
\* that is applied to the aggregated rows.
SurvivingGroups ==
    LET rows == GroupBy(run.table, run.grouped)
        cw == CommonWords([i \in 1..Len(rows) |-> StripPunct(rows[i].Name)])
    IN  {g \in RunGroupIds :
            \E i \in 1..Len(rows) :
                /\ {rows[i].projectID[k] : k \in 1..Len(rows[i].projectID)}
                       = MembersOf(g)
                /\ RemoveNoise(StripPunct(rows[i].Name), cw) # <<>>}

\* C3 as stated: the Efficiency of every output row is the capacity-weighted
\* mean sum(Efficiency_i * Capacity_i) / sum(Capacity_i) of its members
\* (groups of total capacity 0, whose mean is undefined, are left out).
C3_WeightedMeanEfficiency ==
    Returned =>
        \A i \in 1..Len(run.out) :
            LET M == OutMembers(i)
                e == run.out[i].Efficiency
            IN  CapacityOfAll(M) > 0 =>
                    /\ e.d # 0
                    /\ e.n * CapacityOfAll(M)
                           = WeightedEfficiencyOfAll(M) * e.d

\* C4 as stated: for a singleton group (any Capacity, 0 included) the
\* Efficiency and the Duration of the output row are the record's own.
C4_SingletonRoundTrip ==
    Returned =>
        \A i \in 1..Len(run.out) :
            Len(run.out[i].projectID) = 1 =>
                LET r == InputRow(run.out[i].projectID[1])
                IN  /\ RatEq(run.out[i].Efficiency, r.Efficiency)
                    /\ RatEq(run.out[i].Duration, r.Duration)

\* The Capacity of every output row is the sum of the Capacities of exactly
\* the records assigned to one group, and no record is counted in two rows.
RowCapacitiesAreGroupSums ==
    /\ \A i \in 1..Len(run.out) :
          /\ \E g \in RunGroupIds : OutMembers(i) = MembersOf(g)
          /\ Len(run.out[i].projectID) = Cardinality(OutMembers(i))
          /\ run.out[i].Capacity = CapacityOfAll(OutMembers(i))
    /\ \A i \in 1..Len(run.out) : \A j \in 1..Len(run.out) :
          i # j => OutMembers(i) \cap OutMembers(j) = {}

\* C5 as stated: row capacities are group sums, and the total over the output
\* rows is the total over the records that entered the grouping step.
C5_TotalCapacityKept ==
    Returned =>
        /\ RowCapacitiesAreGroupSums
        /\ OutCapacityTotal = CapacityOfAll(EnteredPids)

\* C5 (amended): row capacities are group sums without double count; the
\* records missing from the output are exactly those of the groups whose
\* aggregated Name is emptied by the re-applied cleaning and those without a
\* group id, and the output total is the entered total less their capacity.
C5_CapacityOfSurvivingGroups ==
    Returned =>
        /\ RowCapacitiesAreGroupSums
        /\ OutPids = UNION {MembersOf(g) : g \in SurvivingGroups}
        /\ OutCapacityTotal
               = CapacityOfAll(EnteredPids)
                     - CapacityOfAll(EnteredPids \ OutPids)

\* A group of two records with capacities 100 and 50 is returned as one row
\* of capacity 150.
C5_Witness ==
    /\ Returned
    /\ \E i \in 1..Len(run.out) :
          /\ Cardinality(OutMembers(i)) = 2
          /\ {CapacityOf(m) : m \in OutMembers(i)} = {50, 100}
          /\ run.out[i].Capacity = 150

\* C6 as stated: the number of returned rows is the number of distinct group
\* ids, whatever pre_clean_name is.
C6_OneRowPerGroup ==
    Returned => Len(run.out) = Cardinality(RunGroupIds)

\* C6 (amended): the returned rows are in one-to-one correspondence with the
\* groups whose aggregated Name is not emptied by the re-applied cleaning:
\* never more than one row per group id, and none for the other groups.
C6_OneRowPerSurvivingGroup ==
    Returned =>
        /\ Len(run.out) = Cardinality(SurvivingGroups)
        /\ Len(run.out) <= Cardinality(RunGroupIds)
        /\ \A g \in SurvivingGroups :
              \E i \in 1..Len(run.out) : OutMembers(i) = MembersOf(g)
        /\ \A i \in 1..Len(run.out) : run.out[i].Name # <<>>

\* Without pre-cleaning, two groups of which one is named by noise words
\* only: one row is returned.
C6_Witness ==
    /\ Returned
    /\ ~run.pre_clean_name
    /\ Cardinality(RunGroupIds) = 2
    /\ Cardinality(SurvivingGroups) = 1
    /\ Len(run.out) = 1

-----------------------------------------------------------------------------
(* Properties of the aggregation-group cache.                              *)

\* Two group columns over the same index describe the same partition.
SamePartition(f, g) ==
    /\ DOMAIN f = DOMAIN g
    /\ \A n \in DOMAIN f : f[n] # NaN /\ g[n] # NaN
    /\ \A a \in DOMAIN f : \A b \in DOMAIN f : (f[a] = f[b]) <=> (g[a] = g[b])

ComputedByCliques ==
    /\ ~run.hit
    /\ run.order \in CliqueOrders(RunIndex, run.dup)
    /\ run.grouped = Cliques(RunIndex, run.order)

CacheHoldsGroups == cache.kind = "file" /\ cache.map = run.grouped

\* C7 as stated: a call with use_saved_aggregation=True that finds no
\* readable cache file warns, computes the groups with cliques() and leaves a
\* cache file holding the mapping just computed.
C7_FallbackWritesCache ==
    (Returned /\ run.use_saved_aggregation /\ ReadFails(run.cache_before)) =>
        /\ run.warned
        /\ ComputedByCliques
        /\ CacheHoldsGroups

\* C7 (amended): the same, for calls that also have save_aggregation=True
\* (the default).
C7_FallbackWritesCacheWhenSaving ==
    (/\ Returned
     /\ run.use_saved_aggregation
     /\ run.save_aggregation
     /\ ReadFails(run.cache_before)) =>
        /\ run.warned
        /\ ComputedByCliques
        /\ CacheHoldsGroups

\* A call on a two-record table that found an unreadable file, warned, and
\* left the mapping it computed.
C7_Witness ==
    /\ Returned
    /\ run.use_saved_aggregation
    /\ run.save_aggregation
    /\ run.cache_before.kind = "unreadable"
    /\ run.warned
    /\ Cardinality(RunIndex) = 2
    /\ cache.kind = "file"
    /\ DOMAIN cache.map = RunIndex

\* C8 as stated: a cached mapping saved for another index set is a cache
\* miss: the groups are recomputed, every record has a group id and none is
\* missing from the output.
C8_StaleIndexIsMiss ==
    (/\ Returned
     /\ run.use_saved_aggregation
     /\ run.save_aggregation
     /\ run.cache_before.kind = "file"
     /\ DOMAIN run.cache_before.map # RunIndex) =>
        /\ ComputedByCliques
        /\ \A n \in RunIndex : run.grouped[n] # NaN
        /\ EnteredPids \subseteq OutPids

\* C9 as stated: the partition taken from the cache is one that recomputing
\* the groups from the current duplicate signals gives.  It is stated here
\* for the hits whose file holds exactly the labels of the current index, so
\* that a violation does not rest on the stale-index case of C8.
C9_CacheHitEqualsRecompute ==
    (Returned /\ run.hit /\ DOMAIN run.cache_before.map = RunIndex) =>
        \E o \in CliqueOrders(RunIndex, run.dup) :
            SamePartition(run.grouped, Cliques(RunIndex, o))

-----------------------------------------------------------------------------
(* cliques() and signals that name an unknown record.                      *)

\* The signals whose two endpoints are indices of the table.
KnownSignals ==
    {p \in cq.dup : p[1] \in cq.index /\ p[2] \in cq.index}

\* C12: when a signal names an index that is not an index of the table,
\* cliques() raises no error and returns the grouping of the table's records
\* that it returns without the signals of unknown records.
C12_UnknownIndexIgnored ==
    (cq.pc # "start" /\ ~ValidSignals) =>
        /\ cq.pc = "done"
        /\ \E o \in CliqueOrders(cq.index, KnownSignals) :
              SamePartition(cq.grouped, Cliques(cq.index, o))

-----------------------------------------------------------------------------
(* Specification of cliques() on reciprocal signal lists: every signal is  *)
(* present in both directions, so each pair is an edge of H and maximal    *)
(* cliques may overlap.                                                    *)

MaxNodes == 4

\* The unordered pairs of distinct labels of the index.
EdgesOn(index) ==
    {e \in SUBSET index : Cardinality(e) = 2}

\* dataduplicates holding both directions of every edge of E.
Reciprocal(E) ==
    {p \in (UNION E) \X (UNION E) : p[1] # p[2] /\ {p[1], p[2]} \in E}

InitOverlap ==
    /\ \E index \in {0..(n - 1) : n \in 1..MaxNodes} :
          \E E \in SUBSET EdgesOn(index) :
              cq = [pc |-> "start", index |-> index, dup |-> Reciprocal(E),
                    order |-> <<>>, grouped |-> <<>>]
    /\ run = IdleRun
    /\ cache = NoCache
    /\ fn = IdleFn

NextOverlap == CliquesCall

SpecOverlap == InitOverlap /\ [][NextOverlap]_vars

\* The group ids that cliques() has assigned.
AssignedIds == {cq.grouped[n] : n \in cq.index}

\* C11: the set of group ids assigned by cliques() is exactly 0..k-1 for k
\* the number of distinct groups: no integer below the largest id is unused.
C11_DenseIds ==
    cq.pc = "done" => AssignedIds = 0..(Cardinality(AssignedIds) - 1)

-----------------------------------------------------------------------------
(* gather_set_info(df, search_col=['Name', 'Fueltype', 'Technology'])      *)
(*                                                                         *)
(* A text cell is a sequence of tokens, a missing one (NaN) is NullText;   *)
(* a pattern is the sequence of the words of one alternative of the regex; *)
(* the scanned columns are columns of strings (dtype object).              *)

NullSet == "NaN"

SearchCol == <<"Name", "Fueltype", "Technology">>

CHPPatterns ==
    {<<"heizkraftwerk">>, <<"hkw">>, <<"chp">>, <<"bhkw">>, <<"cogeneration">>,
     <<"power", "and", "heat">>, <<"heat", "and", "power">>}

StorePatterns == {<<"battery">>, <<"storage">>}

\* str.contains(pattern, case=False) on one cell.
Contains(text, patterns) ==
    LET low == [i \in 1..Len(text) |-> Lower(text[i])]
    IN  \E p \in patterns : \E i \in 1..Len(text) :
            /\ i + Len(p) - 1 <= Len(text)
            /\ SubSeq(low, i, i + Len(p) - 1) = p

\* df[i].dropna().str.contains(pattern, case=False).reindex(df.index)
\*      .fillna(False): a missing cell is no match.
IsMatch(df, col, patterns) ==
    [r \in 1..Len(df) |->
        df[r][col] # NullText /\ Contains(df[r][col], patterns)]

\* Set.loc[mask] = value
SetLoc(Set, mask, value) ==
    [r \in DOMAIN Set |-> IF mask[r] THEN value ELSE Set[r]]

\* for i in search_col: Set.loc[<match of column i>] = value
RECURSIVE MarkLoop(_, _, _, _, _)
MarkLoop(Set, df, cols, patterns, value) ==
    IF cols = <<>> THEN Set
    ELSE MarkLoop(SetLoc(Set, IsMatch(df, Head(cols), patterns), value),
                  df, Tail(cols), patterns, value)

CHPLoop(df, Set) == MarkLoop(Set, df, SearchCol, CHPPatterns, "CHP")

\* A storage loop that only labels the records whose Set was missing in the
\* table handed in.
StoreLoopOnUnset(df, Set) ==
    LET marked == MarkLoop(Set, df, SearchCol, StorePatterns, "Store")
    IN  [r \in DOMAIN Set |-> IF df[r].Set = NullSet THEN marked[r] ELSE Set[r]]

StoreLoop(df, Set) == MarkLoop(Set, df, SearchCol, StorePatterns, "Store")

\* Set = df['Set'].copy() if 'Set' in df else pd.Series(index=df.index)
InitialSet(df, has_set) ==
    [r \in 1..Len(df) |-> IF has_set THEN df[r].Set ELSE NullSet]

\* df.assign(Set=Set); df.loc[:, 'Set'].fillna('PP', inplace=True)
AssignSet(df, Set) ==
    [r \in 1..Len(df) |->
        [df[r] EXCEPT !.Set = IF Set[r] = NullSet THEN "PP" ELSE Set[r]]]

\* The two loops in the other order.
GatherStoreFirst(df, has_set) ==
    AssignSet(df, CHPLoop(df, StoreLoop(df, InitialSet(df, has_set))))

gather_set_info(df, has_set) ==
    AssignSet(df, StoreLoop(df, CHPLoop(df, InitialSet(df, has_set))))

-----------------------------------------------------------------------------
(* Specification of gather_set_info() applied to a table and then to its   *)
(* own output.                                                             *)

MaxSetRows == 2

SetNames == {<<"Alpha">>, <<"CHP", "Storage">>}

SetFueltypes == {NullText, <<"Battery">>}

SetTechnologies == {NullText, <<"Heat", "and", "Power">>, <<"Pumped", "Storage">>}

\* The values of a Set column handed in: missing, or a label.
SetValues == {NullSet, "CHP", "Store", "PP"}

\* The tables of n rows; a table without the column Set carries NullSet.
SetTablesOf(n, has_set) ==
    [1..n -> [Name : SetNames, Fueltype : SetFueltypes,
              Technology : SetTechnologies,
              Set : IF has_set THEN SetValues ELSE {NullSet}]]

InitSet ==
    /\ cq = [pc |-> "idle"]
    /\ run = IdleRun
    /\ cache = NoCache
    /\ \E has_set \in BOOLEAN : \E n \in 1..MaxSetRows :
          \E df \in SetTablesOf(n, has_set) :
              fn = [pc |-> "start", df |-> df, has_set |-> has_set]

GatherSetInfo ==
    /\ fn.pc = "start"
    /\ fn' = [pc |-> "once", df |-> fn.df, has_set |-> fn.has_set,
              out |-> gather_set_info(fn.df, fn.has_set)]
    /\ UNCHANGED <<cq, run, cache>>

\* The output always has the column Set.
GatherSetInfoAgain ==
    /\ fn.pc = "once"
    /\ fn' = [pc |-> "twice", df |-> fn.df, has_set |-> fn.has_set,
              out |-> fn.out, again |-> gather_set_info(fn.out, TRUE)]
    /\ UNCHANGED <<cq, run, cache>>

NextSet == GatherSetInfo \/ GatherSetInfoAgain

SpecSet == InitSet /\ [][NextSet]_vars

-----------------------------------------------------------------------------
(* Properties of gather_set_info().                                        *)

\* Some scanned column of the row holds one of the keywords.
MatchesAny(row, patterns) ==
    \E i \in 1..Len(SearchCol) :
        row[SearchCol[i]] # NullText /\ Contains(row[SearchCol[i]], patterns)

\* The row has no Set value before the call.
Unset(row) == ~fn.has_set \/ row.Set = NullSet

\* C13: a record with a storage keyword in any scanned column gets Set =
\* "Store", also when a CHP keyword matches as well; a record with CHP
\* keywords only gets "CHP"; a record without a match and without a prior
\* Set value gets "PP".
C13_StorePrecedence ==
    fn.pc = "once" =>
        \A r \in 1..Len(fn.df) :
            LET row   == fn.df[r]
                store == MatchesAny(row, StorePatterns)
                chp   == MatchesAny(row, CHPPatterns)
            IN  /\ store => fn.out[r].Set = "Store"
                /\ (chp /\ ~store) => fn.out[r].Set = "CHP"
                /\ (~chp /\ ~store /\ Unset(row)) => fn.out[r].Set = "PP"

\* A record with a CHP keyword in one column and a storage keyword in
\* another one has been labelled, next to a record labelled by default.
C13_Witness ==
    /\ fn.pc = "once"
    /\ \E r \in 1..Len(fn.df) :
          /\ fn.df[r].Name = <<"Alpha">>
          /\ fn.df[r].Fueltype = <<"Battery">>
          /\ fn.df[r].Technology = <<"Heat", "and", "Power">>
          /\ fn.out[r].Set = "Store"
    /\ \E r \in 1..Len(fn.df) :
          /\ ~MatchesAny(fn.df[r], StorePatterns \cup CHPPatterns)
          /\ Unset(fn.df[r])
          /\ fn.out[r].Set = "PP"

\* C14: applying gather_set_info() to its own output changes no Set value
\* (and nothing else of the table).
C14_Idempotent ==
    fn.pc = "twice" => fn.again = fn.out

\* The second application has run on a table in which the first one
\* replaced a prior label by "Store" and set a "CHP".
C14_Witness ==
    /\ fn.pc = "twice"
    /\ \E r \in 1..Len(fn.df) :
          /\ fn.has_set
          /\ fn.df[r].Set = "CHP"
          /\ fn.out[r].Set = "Store"
          /\ MatchesAny(fn.df[r], CHPPatterns)
    /\ \E r \in 1..Len(fn.df) : fn.out[r].Set = "CHP"

-----------------------------------------------------------------------------
(* Specification of clean_powerplantname() as a function of the table.     *)

MaxCleanRows == 3

PowerPlantUnitI == <<"Power", "Plant", "Unit", "I">>

PowerPlantStationI == <<"Power", "Plant", "Station", "I">>

CleanNames ==
    {NullText, PowerPlantUnitI, PowerPlantStationI, <<"Alpha", "Power">>,
     <<"2", "-", "b">>}

\* The tables of n rows; projectID is a column the function passes through.
CleanTablesOf(n) ==
    {[i \in 1..n |-> [idx |-> i - 1, Name |-> names[i], projectID |-> i]] :
        names \in [1..n -> CleanNames]}

InitClean ==
    /\ cq = [pc |-> "idle"]
    /\ run = IdleRun
    /\ cache = NoCache
    /\ \E n \in 1..MaxCleanRows : \E df \in CleanTablesOf(n) :
          fn = [pc |-> "start", df |-> df]

CleanCall ==
    /\ fn.pc = "start"
    /\ fn' = [pc |-> "cleaned", df |-> fn.df, out |-> clean_powerplantname(fn.df)]
    /\ UNCHANGED <<cq, run, cache>>

NextClean == CleanCall

SpecClean == InitClean /\ [][NextClean]_vars

-----------------------------------------------------------------------------
(* Properties of clean_powerplantname().                                   *)

\* Every token of the name is on the hand-written noise list, is a single
\* letter, or is made of digits and punctuation.
NoiseOnly(name) ==
    /\ name # NullText
    /\ \A i \in 1..Len(name) :
          \/ IsPunct(name[i])
          \/ SingleLetter(name[i])
          \/ Lower(name[i]) \in FixedNoise

\* The input row r is absent from the returned table.
AbsentFromOutput(r) ==
    \A i \in 1..Len(fn.out) : fn.out[i].projectID # fn.df[r].projectID

NoNullOrEmptyName ==
    \A i \in 1..Len(fn.out) : fn.out[i].Name # <<>> /\ fn.out[i].Name # NullText

-----------------------------------------------------------------------------
(* collect(datasets, update, use_saved_aggregation, use_saved_matches,     *)
(*         reduced, custom_config, config)   (collection.py)               *)
(*                                                                         *)
(* The argument datasets is [str, names]: a single name (str) or a list,   *)
(* which collect() sorts, modelled as the set of its names.  The files of  *)
(* the output directory are the set of [kind, names] that exist.  The      *)
(* result recorded is the set of calls of aggregate_units() made.          *)

DatasetNames == {"ENTSOE", "GEO"}

DatasetArgs ==
    {[str |-> TRUE, names |-> {n}] : n \in DatasetNames}
        \cup {[str |-> FALSE, names |-> S] : S \in (SUBSET DatasetNames) \ {{}}}

\* df_by_name(name): a dataset whose configuration does not say
\* aggregated_units is handed to aggregate_units with the value that the
\* variable use_saved_aggregation of collect() has when the call is made.
DfByName(name, use_saved_aggregation, aggregated_units) ==
    IF name \notin aggregated_units
    THEN {[dataset_name |-> name,
           use_saved_aggregation |-> use_saved_aggregation]}
    ELSE {}

\* outfn_matched, outfn_reduced
OutFn(kind, names) == [kind |-> kind, names |-> names]

\* not update and not os.path.exists(outfn_reduced if reduced else
\* outfn_matched)
ForcesUpdate(names, update, reduced, files) ==
    /\ ~update
    /\ OutFn(IF reduced THEN "reduced" ELSE "matched", names) \notin files

CollectCalls(datasets, update, use_saved_aggregation, reduced, aggregated_units, files) ==
    IF datasets.str
    THEN DfByName(CHOOSE n \in datasets.names : TRUE, use_saved_aggregation,
                  aggregated_units)
    ELSE LET forced == ForcesUpdate(datasets.names, update, reduced, files)
             upd    == update \/ forced
             usa    == IF forced THEN TRUE ELSE use_saved_aggregation
         IN  IF upd
             THEN UNION {DfByName(n, usa, aggregated_units) : n \in datasets.names}
             ELSE {}

\* matched.to_csv(outfn_matched), reduced_df.to_csv(outfn_reduced) on the
\* update path of a list of datasets.
CollectFiles(datasets, update, reduced, files) ==
    IF ~datasets.str
          /\ (update \/ ForcesUpdate(datasets.names, update, reduced, files))
    THEN files \cup {OutFn("matched", datasets.names),
                     OutFn("reduced", datasets.names)}
    ELSE files

InitCollect ==
    /\ cq = [pc |-> "idle"]
    /\ run = IdleRun
    /\ cache = NoCache
    /\ fn = [pc |-> "idle", files |-> {}]

Collect ==
    /\ fn.pc = "idle"
    /\ \E datasets \in DatasetArgs : \E update \in BOOLEAN :
       \E use_saved_aggregation \in BOOLEAN : \E reduced \in BOOLEAN :
       \E aggregated_units \in SUBSET DatasetNames :
          fn' = [pc |-> "returned",
                 datasets |-> datasets, update |-> update,
                 use_saved_aggregation |-> use_saved_aggregation,
                 reduced |-> reduced, aggregated_units |-> aggregated_units,
                 forced |-> ~datasets.str
                            /\ ForcesUpdate(datasets.names, update, reduced,
                                            fn.files),
                 calls |-> CollectCalls(datasets, update, use_saved_aggregation,
                                        reduced, aggregated_units, fn.files),
                 files |-> CollectFiles(datasets, update, reduced, fn.files)]
    /\ UNCHANGED <<cq, run, cache>>

CollectReturn ==
    /\ fn.pc = "returned"
    /\ fn' = [pc |-> "idle", files |-> fn.files]
    /\ UNCHANGED <<cq, run, cache>>

\* Somebody removes a combined cache file between two calls.
RemoveOutFile ==
    /\ fn.pc = "idle"
    /\ \E f \in fn.files : fn' = [fn EXCEPT !.files = @ \ {f}]
    /\ UNCHANGED <<cq, run, cache>>

NextCollect == Collect \/ CollectReturn \/ RemoveOutFile

SpecCollect == InitCollect /\ [][NextCollect]_vars

\* C16: a call of collect() with use_saved_aggregation=False hands every
\* dataset that is not pre-aggregated to aggregate_units with
\* use_saved_aggregation=False, for a single name and for a list, for every
\* value of update, also when the update is forced because the combined
\* cache file is missing.
C16_NeverUsesSavedAggregation ==
    (fn.pc = "returned" /\ ~fn.use_saved_aggregation) =>
        \A c \in fn.calls : ~c.use_saved_aggregation

=============================================================================
